---- MODULE Spec2Model ----
(***************************************************************************)
(* Model of the hotel audit application (audit_form_structure.py): the     *)
(* audit session data model, the form handlers that save and clear         *)
(* responses, and the tabular and paginated-document exporters.            *)
(*                                                                         *)
(* Python values are represented as follows:                               *)
(*   str            a TLA+ string (Len, SubSeq and \o act on characters)   *)
(*   Optional[T]    <<>> for None, <<v>> for a value v                     *)
(*   list           a sequence                                             *)
(*   dict           a function from keys to values; where the code relies  *)
(*                  on the insertion order of the keys, a sequence of      *)
(*                  [key, value] entries                                   *)
(*   object         a record of its attributes; AuditResponse carries an   *)
(*                  "oid" attribute standing for the object's identity     *)
(***************************************************************************)
EXTENDS Integers, Sequences, FiniteSets, TLC

VARIABLES
    checklist_dict,            \* module-level cached catalog (line 317)
    session,                   \* st.session_state['session']: Optional[AuditSession]
    selected_section,          \* st.session_state['selected_section']
    selected_general_section,  \* st.session_state['selected_general_section']
    files,                     \* paths that exist under audits/
    now,                       \* last reading of datetime.utcnow()
    nextOid,                   \* number of AuditResponse objects constructed so far
    out                        \* what the last run or call showed and returned

vars == <<checklist_dict, session, selected_section, selected_general_section,
          files, now, nextOid, out>>

\* ------------------------------------------------------------------ bounds
MaxObjects == 3      \* AuditResponse objects constructed in one behaviour
MaxRatingParts == 3  \* parts an arbitrary rating string is put together from

\* ------------------------------------------------------------ Python values
None == <<>>
Some(v) == <<v>>
\* truthiness of an Optional[str]: None and "" are falsy
Truthy(o) == o # None /\ o[1] # ""

\* str.startswith
StartsWith(s, p) == Len(p) <= Len(s) /\ SubSeq(s, 1, Len(p)) = p

\* str.find from position i on, 1-based; 0 when d does not occur there
RECURSIVE FindFrom(_, _, _)
FindFrom(s, d, i) ==
    IF i + Len(d) - 1 > Len(s) THEN 0
    ELSE IF SubSeq(s, i, i + Len(d) - 1) = d THEN i
    ELSE FindFrom(s, d, i + 1)
Find(s, d) == FindFrom(s, d, 1)

\* d in s
Contains(s, d) == Find(s, d) # 0

\* s.split(d)[0]: the text before the first d, the whole of s without one
SplitFirst(s, d) ==
    IF Contains(s, d) THEN SubSeq(s, 1, Find(s, d) - 1) ELSE s

\* s.split(d, 1)[1]: the text after the first d (d occurs in s)
SplitRest(s, d) == SubSeq(s, Find(s, d) + Len(d), Len(s))

\* s.replace(' ', '_')
RECURSIVE ReplaceSpaces(_)
ReplaceSpaces(s) ==
    IF s = "" THEN ""
    ELSE (IF SubSeq(s, 1, 1) = " " THEN "_" ELSE SubSeq(s, 1, 1))
         \o ReplaceSpaces(SubSeq(s, 2, Len(s)))

\* s.strip(): whitespace removed at both ends
RECURSIVE LStrip(_)
LStrip(s) ==
    IF s # "" /\ SubSeq(s, 1, 1) = " " THEN LStrip(SubSeq(s, 2, Len(s))) ELSE s
RECURSIVE RStrip(_)
RStrip(s) ==
    IF s # "" /\ SubSeq(s, Len(s), Len(s)) = " "
    THEN RStrip(SubSeq(s, 1, Len(s) - 1)) ELSE s
Strip(s) == LStrip(RStrip(s))

\* ---------------------------------------------------------------- constants
GENERAL_CATEGORIES ==
    << "Facade & Structure", "Main Lobby", "Corridors & Hallways", "Public Toilets",
       "Spa & Wellness", "Fitness Center", "Swimming Pools",
       "Landscaping & Outdoor", "Parking & Entry" >>

RATING_OPTIONS ==
    << "1 - Needs to be changed due to age-related factors",
       "2 - Needs to be changed to match competing hotels",
       "3 - Not applicable",
       "4 - No action required" >>

SPECIALIZED_SECTIONS == << "F&B Outlets", "Ballrooms & Meeting Rooms", "Guestroom" >>

\* the members of a list
Range(seq) == {seq[i] : i \in 1..Len(seq)}

\* datetime formatting: clock readings are whole seconds
SecondsPerMinute == 60
\* strftime('%Y%m%d_%H%M%S'): second resolution
StrftimeSeconds(t) == ToString(t)
\* strftime('%Y-%m-%d %H:%M'): minute resolution
StrftimeMinutes(t) == ToString(t \div SecondsPerMinute)

\* --------------------------------------------------------------- data model
\* ChecklistItem(section, item): note takes its default
ChecklistItem(section, item) ==
    [section |-> section, item |-> item, note |-> "Provide observation or reason"]

\* AuditResponse(checklist_item, rating, comment, photo_file, context), constructed
\* as object number oid at clock reading t
AuditResponse(oid, checklist_item, rating, comment, photo_file, context, t) ==
    [oid |-> oid, checklist_item |-> checklist_item, rating |-> rating,
     comment |-> comment, photo_file |-> photo_file, context |-> context,
     timestamp |-> t]

\* AuditResponse.rating_description
rating_description(r) ==
    IF Contains(r.rating, " - ") THEN SplitRest(r.rating, " - ") ELSE r.rating

\* AuditSession(hotel_info, auditor_name); t1 and t2 are its two clock readings
AuditSession(hotel_info, auditor_name, t1, t2) ==
    LET safe_hotel_name ==
            ReplaceSpaces(IF "name" \in DOMAIN hotel_info
                          THEN hotel_info.name ELSE "Hotel")
    IN [session_id |-> safe_hotel_name \o "_" \o StrftimeSeconds(t1),
        hotel_info |-> hotel_info,
        auditor_name |-> auditor_name,
        timestamp |-> t2,
        responses |-> <<>>]

\* add_response as a key-value store would do it: the earlier responses for the
\* same (section, item, context) are replaced
add_response_replacing(s, response) ==
    [s EXCEPT !.responses =
        Append(SelectSeq(@, LAMBDA r :
                   ~(/\ r.checklist_item.section = response.checklist_item.section
                     /\ r.checklist_item.item = response.checklist_item.item
                     /\ r.context = response.context)),
               response)]

\* AuditSession.add_response
add_response(s, response) == [s EXCEPT !.responses = Append(@, response)]

\* list.remove(r): drops the first element equal to r; AuditResponse defines no
\* __eq__, so equal means the same object
ListRemove(list, r) ==
    LET i == CHOOSE k \in 1..Len(list) :
                 list[k].oid = r.oid /\ \A j \in 1..(k - 1) : list[j].oid # r.oid
    IN SubSeq(list, 1, i - 1) \o SubSeq(list, i + 1, Len(list))

\* a clear that removes only the latest of the existing responses
RemoveLatestOnly(list, existing) ==
    IF existing = <<>> THEN list ELSE ListRemove(list, existing[Len(existing)])

\* for r in existing: session.responses.remove(r)
RECURSIVE RemoveEach(_, _)
RemoveEach(list, existing) ==
    IF existing = <<>> THEN list
    ELSE RemoveEach(ListRemove(list, Head(existing)), Tail(existing))

\* AuditSession.summary
summary(s) ==
    [session_id |-> s.session_id, hotel |-> s.hotel_info, auditor |-> s.auditor_name,
     responses_count |-> Len(s.responses), timestamp |-> s.timestamp]

\* AuditSession.get_responses_by_section: a dict keeps its keys in insertion
\* order, so it is a sequence of [key, value] entries
DictKeys(d) == [i \in 1..Len(d) |-> d[i].key]
\* a grouping that opens a new entry whenever the section differs from the one
\* of the entry written last
RECURSIVE GroupRunsFrom(_, _, _)
GroupRunsFrom(responses, i, sections) ==
    IF i > Len(responses) THEN sections
    ELSE LET response == responses[i]
             section == response.checklist_item.section
             with_key == IF sections # <<>> /\ sections[Len(sections)].key = section
                         THEN sections
                         ELSE Append(sections, [key |-> section, value |-> <<>>])
         IN GroupRunsFrom(responses, i + 1,
                          [with_key EXCEPT ![Len(with_key)].value = Append(@, response)])
RECURSIVE GroupFrom(_, _, _)
GroupFrom(responses, i, sections) ==
    IF i > Len(responses) THEN sections
    ELSE LET response == responses[i]
             section == response.checklist_item.section
             with_key == IF section \in Range(DictKeys(sections)) THEN sections
                         ELSE Append(sections, [key |-> section, value |-> <<>>])
             k == CHOOSE n \in 1..Len(with_key) : with_key[n].key = section
         IN GroupFrom(responses, i + 1,
                      [with_key EXCEPT ![k].value = Append(@, response)])
get_responses_by_section(s) == GroupFrom(s.responses, 1, <<>>)

\* ---------------------------------------------------------------- exporters
\* generate_excel_data: the row built for one response
ExcelRow(response) ==
    LET rating_num == SplitFirst(response.rating, " - ")
        matching == SelectSeq(RATING_OPTIONS, LAMBDA opt : StartsWith(opt, rating_num))
        rating_desc == IF matching # <<>> THEN Head(matching) ELSE response.rating
    IN [Section |-> response.checklist_item.section,
        Item |-> response.checklist_item.item,
        Rating |-> rating_desc,
        Comment |-> response.comment,
        Context |-> IF Truthy(response.context) THEN response.context[1] ELSE "General",
        Photo |-> IF Truthy(response.photo_file) THEN "Yes" ELSE "No",
        Timestamp |-> StrftimeMinutes(response.timestamp)]

\* the keys of a row dict, in the order the code writes them
ExcelColumns ==
    << "Section", "Item", "Rating", "Comment", "Context", "Photo", "Timestamp" >>

\* pd.DataFrame(data) for a list of dicts: the columns are the keys of the dicts,
\* so an empty list gives a frame without columns
DataFrame(data) ==
    [columns |-> IF data = <<>> THEN <<>> ELSE ExcelColumns, rows |-> data]

\* a table whose rows are grouped by section, as the findings of the document are
RECURSIVE FlattenFrom(_, _)
FlattenFrom(sections, i) ==
    IF i > Len(sections) THEN <<>>
    ELSE sections[i].value \o FlattenFrom(sections, i + 1)
generate_excel_data_grouped(s) ==
    LET grouped == FlattenFrom(get_responses_by_section(s), 1)
    IN DataFrame([i \in 1..Len(grouped) |-> ExcelRow(grouped[i])])

\* generate_excel_data
generate_excel_data(s) ==
    DataFrame([i \in 1..Len(s.responses) |-> ExcelRow(s.responses[i])])

\* hotel_info.get(key, 'N/A') rendered into an f-string
GetOrNA(hotel_info, key) ==
    IF key \in DOMAIN hotel_info THEN hotel_info[key] ELSE "N/A"

\* generate_pdf_report: the cells written before the findings
PdfHeaderLines(s) ==
    << "Hotel Audit Report",
       "Hotel Information",
       "Hotel Name: " \o GetOrNA(s.hotel_info, "name"),
       "Location: " \o GetOrNA(s.hotel_info, "city") \o ", "
                    \o GetOrNA(s.hotel_info, "country"),
       "Year Opened: " \o GetOrNA(s.hotel_info, "year_opened"),
       "Floors: " \o GetOrNA(s.hotel_info, "floors"),
       "Total Rooms: " \o GetOrNA(s.hotel_info, "total_rooms"),
       "Auditor: " \o s.auditor_name,
       "Date: " \o StrftimeMinutes(s.timestamp),
       "Audit Findings" >>

\* a finding whose item line names "General" when the response has no context, as
\* the Context column of the table does
PdfFindingLinesWithGeneral(idx, r) ==
    LET context_info == IF Truthy(r.context) THEN " (" \o r.context[1] \o ")"
                        ELSE " (General)"
    IN << ToString(idx) \o ". Item: " \o r.checklist_item.item \o context_info,
          "Rating: " \o rating_description(r),
          "Comment: " \o r.comment >>

\* generate_pdf_report: the three cells of finding number idx of a subsection
PdfFindingLines(idx, r) ==
    LET context_info == IF Truthy(r.context) THEN " (" \o r.context[1] \o ")" ELSE ""
    IN << ToString(idx) \o ". Item: " \o r.checklist_item.item \o context_info,
          "Rating: " \o rating_description(r),
          "Comment: " \o r.comment >>

\* generate_pdf_report: the cells of one subsection
RECURSIVE PdfFindingsFrom(_, _)
PdfFindingsFrom(responses, idx) ==
    IF idx > Len(responses) THEN <<>>
    ELSE PdfFindingLines(idx, responses[idx]) \o PdfFindingsFrom(responses, idx + 1)
PdfSectionLines(entry) ==
    << "Section: " \o entry.key >> \o PdfFindingsFrom(entry.value, 1)

\* generate_pdf_report: the findings block, one subsection per entry of
\* get_responses_by_section()
RECURSIVE PdfSectionsFrom(_, _)
PdfSectionsFrom(sections, i) ==
    IF i > Len(sections) THEN <<>>
    ELSE PdfSectionLines(sections[i]) \o PdfSectionsFrom(sections, i + 1)

\* generate_pdf_report: the text of the document, cell by cell
PdfLines(s) == PdfHeaderLines(s) \o PdfSectionsFrom(get_responses_by_section(s), 1)

\* the paths the two writers derive from session_id
JsonPath(s) == "audits/" \o s.session_id \o ".json"
PdfPath(s) == "audits/" \o s.session_id \o ".pdf"

\* ------------------------------------------------------- storage and catalog
\* a save_to_file that returns no path when the write fails
save_to_file_or_nothing(s, fs, ok, partial) ==
    [returned |-> IF ok THEN "audits/" \o s.session_id \o ".json" ELSE "",
     errors |-> IF ok THEN {} ELSE {"Error saving session data."},
     raised |-> FALSE,
     files |-> IF ok \/ partial THEN fs \cup {"audits/" \o s.session_id \o ".json"}
               ELSE fs]

\* AuditSession.save_to_file on the directory content fs; ok says whether the
\* write succeeds, partial whether a failed write leaves a file behind
save_to_file(s, fs, ok, partial) ==
    [returned |-> JsonPath(s),
     errors |-> IF ok THEN {} ELSE {"Error saving session data."},
     raised |-> FALSE,
     files |-> IF ok \/ partial THEN fs \cup {JsonPath(s)} ELSE fs]

\* generate_pdf_report: the write of the document (its text is PdfLines) and
\* what is returned
generate_pdf_report(s, fs, ok, partial) ==
    [returned |-> PdfPath(s),
     errors |-> IF ok THEN {} ELSE {"Failed to generate PDF report."},
     raised |-> FALSE,
     files |-> IF ok \/ partial THEN fs \cup {PdfPath(s)} ELSE fs]

\* save_uploaded_photo: uploaded_file is the Optional name of the upload, uuid the
\* fresh identifier, ok whether the write succeeds
save_uploaded_photo(uploaded_file, uuid, ok) ==
    IF uploaded_file # None
    THEN IF ok
         THEN [returned |-> Some("photos/" \o ToString(uuid) \o "_" \o uploaded_file[1]),
               errors |-> {}]
         ELSE [returned |-> None, errors |-> {"Error saving the uploaded photo."}]
    ELSE [returned |-> None, errors |-> {}]

\* a master_checklist_template.json as shipped with a deployment
MasterChecklist ==
    [section \in {"Main Lobby", "Public Toilets", "F&B Outlets",
                  "Ballrooms & Meeting Rooms"} |->
        CASE section = "Main Lobby" -> << "Flooring condition", "Lighting" >>
          [] section = "Public Toilets" -> << "Flooring condition" >>
          [] section = "F&B Outlets" -> << "Flooring condition" >>
          [] section = "Ballrooms & Meeting Rooms" -> << "Flooring condition" >>]

\* load_master_checklist: outcome is how reading the file went
load_master_checklist(outcome) ==
    CASE outcome = "loaded" ->
            [returned |-> MasterChecklist, errors |-> {}]
      [] outcome = "not found" ->
            [returned |-> [category \in Range(GENERAL_CATEGORIES \o SPECIALIZED_SECTIONS)
                              |-> <<>>],
             errors |-> {"Master checklist file not found. Using default categories."}]
      [] OTHER ->
            [returned |-> [category \in {} |-> <<>>],
             errors |-> {"Unexpected error loading checklist."}]

\* --------------------------------------------------------------- the page
\* what a run shows and returns; op names the interaction that was handled
Out(op) ==
    [op |-> op, errors |-> {}, notices |-> {}, returned |-> None,
     download |-> None, raised |-> FALSE, write |-> "none", document |-> <<>>]

\* [prefix + x for x in names if x.strip()]
RECURSIVE OptionsFor(_, _)
OptionsFor(prefix, names) ==
    IF names = <<>> THEN <<>>
    ELSE (IF Strip(Head(names)) # "" THEN << prefix \o Head(names) >> ELSE <<>>)
         \o OptionsFor(prefix, Tail(names))

\* [f"Guestroom: {x['name']}" for x in guestroom_types if x.get("name")]
RECURSIVE GuestroomOptions(_)
GuestroomOptions(types) ==
    IF types = <<>> THEN <<>>
    ELSE (IF Head(types).name # "" THEN << "Guestroom: " \o Head(types).name >> ELSE <<>>)
         \o GuestroomOptions(Tail(types))

\* main: the entries of the section radio
section_options(s) ==
    << "General Sections" >>
    \o OptionsFor("F&B: ", s.hotel_info.fnb_outlets)
    \o OptionsFor("Meeting Room: ", s.hotel_info.meeting_rooms)
    \o GuestroomOptions(s.hotel_info.guestroom_types)

\* a routing that hands the whole radio entry on as the sub-entity name
RouteWholeEntry(selected) ==
    IF selected = "General Sections"
    THEN [handler |-> "general", section_type |-> "", section_name |-> ""]
    ELSE IF StartsWith(selected, "F&B")
    THEN [handler |-> "specific", section_type |-> "F&B", section_name |-> selected]
    ELSE IF StartsWith(selected, "Meeting Room")
    THEN [handler |-> "specific", section_type |-> "Meeting Room",
          section_name |-> selected]
    ELSE IF StartsWith(selected, "Guestroom")
    THEN [handler |-> "specific", section_type |-> "Guestroom",
          section_name |-> selected]
    ELSE [handler |-> "none", section_type |-> "", section_name |-> ""]

\* main: which handler a selected section is routed to, and with what arguments
Route(selected) ==
    IF selected = "General Sections"
    THEN [handler |-> "general", section_type |-> "", section_name |-> ""]
    ELSE IF StartsWith(selected, "F&B")
    THEN [handler |-> "specific", section_type |-> "F&B",
          section_name |-> SplitRest(selected, ": ")]
    ELSE IF StartsWith(selected, "Meeting Room")
    THEN [handler |-> "specific", section_type |-> "Meeting Room",
          section_name |-> SplitRest(selected, ": ")]
    ELSE IF StartsWith(selected, "Guestroom")
    THEN [handler |-> "specific", section_type |-> "Guestroom",
          section_name |-> SplitRest(selected, ": ")]
    ELSE [handler |-> "none", section_type |-> "", section_name |-> ""]

\* specific_section_audit: the catalog section of a section type
checklist_key(section_type) ==
    CASE section_type = "F&B" -> "F&B Outlets"
      [] section_type = "Meeting Room" -> "Ballrooms & Meeting Rooms"
      [] section_type = "Guestroom" -> "Guestroom"
      [] OTHER -> ""

\* general_section_audit: existing_responses of an item of the selected section
GeneralExisting(s, selected, item) ==
    LET section_responses ==
            SelectSeq(s.responses, LAMBDA r : r.checklist_item.section = selected)
    IN SelectSeq(section_responses, LAMBDA r : r.checklist_item.item = item)

\* specific_section_audit: existing_responses of an item for a sub-entity
SpecificExisting(s, key, section_name, item) ==
    LET section_responses ==
            SelectSeq(s.responses,
                      LAMBDA r : r.context = Some(section_name)
                                 /\ r.checklist_item.section = key)
    IN SelectSeq(section_responses, LAMBDA r : r.checklist_item.item = item)

\* the first of the existing responses instead of the last
LatestIsFirst(existing_responses) ==
    IF existing_responses # <<>> THEN Some(existing_responses[1]) ELSE None

\* latest_response = existing_responses[-1] if existing_responses else None
Latest(existing_responses) ==
    IF existing_responses # <<>>
    THEN Some(existing_responses[Len(existing_responses)]) ELSE None

\* ------------------------------------------------------------------ inputs
\* what the auditor can type and pick in the forms
HotelNames == {"", "Grand Hotel"}
AuditorNames == {"", "Ann"}
SubEntityForms ==
    { [fnb_outlets |-> <<>>, meeting_rooms |-> <<>>, guestroom_types |-> <<>>],
      [fnb_outlets |-> << "Bar", " ", "Cafe" >>,
       meeting_rooms |-> << "Bar" >>,
       guestroom_types |-> << [name |-> "Suite", size |-> "40", keys |-> "10"],
                              [name |-> "", size |-> "", keys |-> ""] >>] }
Comments == {"Worn carpet"}
Uploads == {None}
PickedRatings == {RATING_OPTIONS[2]}
PickedCategories == {"Facade & Structure", "Main Lobby"}
Items == UNION {Range(MasterChecklist[section]) : section \in DOMAIN MasterChecklist}
\* readings of datetime.utcnow(), in seconds
ClockReadings == {0, 60}

\* ----------------------------------------------------- the application (main)
Init ==
    /\ \E outcome \in {"loaded", "not found", "failed"} :
          /\ checklist_dict = load_master_checklist(outcome).returned
          /\ out = [Out("load") EXCEPT !.errors = load_master_checklist(outcome).errors]
    /\ session = None
    /\ selected_section = "General Sections"
    /\ selected_general_section = GENERAL_CATEGORIES[1]
    /\ files = {}
    /\ now = 0
    /\ nextOid = 1

\* a Start Audit that asks for the hotel name only
StartAuditWithoutAuditor(hotel_name, auditor_name, form, t1, t2) ==
    /\ session = None
    /\ now <= t1 /\ t1 <= t2
    /\ IF hotel_name = ""
       THEN /\ out' = [Out("start") EXCEPT
                          !.errors = {"Hotel Name and Auditor Name are required fields"}]
            /\ UNCHANGED <<session, now>>
       ELSE /\ session' = Some(AuditSession([name |-> hotel_name,
                                              fnb_outlets |-> form.fnb_outlets,
                                              meeting_rooms |-> form.meeting_rooms,
                                              guestroom_types |-> form.guestroom_types],
                                             auditor_name, t1, t2))
            /\ now' = t2
            /\ out' = Out("start")
    /\ UNCHANGED <<checklist_dict, selected_section, selected_general_section,
                   files, nextOid>>

\* main, "Start Audit" pressed on the hotel information form
StartAudit(hotel_name, auditor_name, form, t1, t2) ==
    /\ session = None
    /\ now <= t1 /\ t1 <= t2
    /\ IF hotel_name = "" \/ auditor_name = ""
       THEN /\ out' = [Out("start") EXCEPT
                          !.errors = {"Hotel Name and Auditor Name are required fields"}]
            /\ UNCHANGED <<session, now>>
       ELSE LET hotel_info ==
                    [name |-> hotel_name, city |-> "", country |-> "",
                     year_opened |-> "2000", floors |-> "1", total_rooms |-> "50",
                     fnb_outlets |-> form.fnb_outlets,
                     meeting_rooms |-> form.meeting_rooms,
                     guestroom_types |-> form.guestroom_types]
            IN /\ session' = Some(AuditSession(hotel_info, auditor_name, t1, t2))
               /\ now' = t2
               /\ out' = Out("start")
    /\ UNCHANGED <<checklist_dict, selected_section, selected_general_section,
                   files, nextOid>>

\* main, "New Audit" pressed in the sidebar
NewAudit ==
    /\ session # None
    /\ session' = None
    /\ selected_section' = "General Sections"
    /\ out' = Out("new")
    /\ UNCHANGED <<checklist_dict, selected_general_section, files, now, nextOid>>

\* main, another entry of the section radio chosen
SelectSection(option) ==
    /\ session # None
    /\ option \in Range(section_options(session[1]))
    /\ option # selected_section
    /\ selected_section' = option
    /\ out' = Out("select")
    /\ UNCHANGED <<checklist_dict, session, selected_general_section, files, now,
                   nextOid>>

\* main, another general category chosen
SelectGeneral(category) ==
    /\ session # None
    /\ selected_section = "General Sections"
    /\ category \in Range(GENERAL_CATEGORIES)
    /\ category # selected_general_section
    /\ selected_general_section' = category
    /\ out' = Out("select")
    /\ UNCHANGED <<checklist_dict, session, selected_section, files, now, nextOid>>

\* the photo path a save stores: the latest response's unless a photo is uploaded
SavedPhotoPath(latest_response, photo, stored) ==
    IF photo # None THEN save_uploaded_photo(photo, nextOid, stored).returned
    ELSE IF latest_response # None THEN latest_response[1].photo_file
    ELSE None

\* general_section_audit, "Save Response" pressed on the card of item
GeneralSave(item, rating, comment, photo, stored, t) ==
    /\ session # None
    /\ Route(selected_section).handler = "general"
    /\ selected_general_section \in DOMAIN checklist_dict
    /\ item \in Range(checklist_dict[selected_general_section])
    /\ nextOid <= MaxObjects
    /\ now <= t
    /\ LET existing_responses ==
               GeneralExisting(session[1], selected_general_section, item)
           photo_path == SavedPhotoPath(Latest(existing_responses), photo, stored)
           response == AuditResponse(nextOid,
                                     ChecklistItem(selected_general_section, item),
                                     rating, comment, photo_path, None, t)
       IN /\ session' = Some(add_response(session[1], response))
          /\ out' = [Out("save") EXCEPT
                        !.notices = {"Saved response for: " \o item},
                        !.errors = save_uploaded_photo(photo, nextOid, stored).errors]
    /\ now' = t
    /\ nextOid' = nextOid + 1
    /\ UNCHANGED <<checklist_dict, selected_section, selected_general_section, files>>

\* general_section_audit, "Clear Response" pressed on the card of item
GeneralClear(item) ==
    /\ session # None
    /\ Route(selected_section).handler = "general"
    /\ selected_general_section \in DOMAIN checklist_dict
    /\ item \in Range(checklist_dict[selected_general_section])
    /\ LET existing_responses ==
               GeneralExisting(session[1], selected_general_section, item)
       IN /\ existing_responses # <<>>
          /\ session' = Some([session[1] EXCEPT
                                 !.responses = RemoveEach(@, existing_responses)])
    /\ out' = [Out("clear") EXCEPT !.notices = {"Cleared responses for: " \o item}]
    /\ UNCHANGED <<checklist_dict, selected_section, selected_general_section, files,
                   now, nextOid>>

\* specific_section_audit, "Save Response" pressed on the card of item
SpecificSave(item, rating, comment, photo, stored, t) ==
    /\ session # None
    /\ Route(selected_section).handler = "specific"
    /\ checklist_key(Route(selected_section).section_type) \in DOMAIN checklist_dict
    /\ item \in Range(checklist_dict[checklist_key(Route(selected_section).section_type)])
    /\ nextOid <= MaxObjects
    /\ now <= t
    /\ LET key == checklist_key(Route(selected_section).section_type)
           section_name == Route(selected_section).section_name
           existing_responses == SpecificExisting(session[1], key, section_name, item)
           photo_path == SavedPhotoPath(Latest(existing_responses), photo, stored)
           response == AuditResponse(nextOid, ChecklistItem(key, item),
                                     rating, comment, photo_path, Some(section_name), t)
       IN /\ session' = Some(add_response(session[1], response))
          /\ out' = [Out("save") EXCEPT
                        !.notices = {"Saved response for: " \o item},
                        !.errors = save_uploaded_photo(photo, nextOid, stored).errors]
    /\ now' = t
    /\ nextOid' = nextOid + 1
    /\ UNCHANGED <<checklist_dict, selected_section, selected_general_section, files>>

\* specific_section_audit, "Clear Response" pressed on the card of item
SpecificClear(item) ==
    /\ session # None
    /\ Route(selected_section).handler = "specific"
    /\ checklist_key(Route(selected_section).section_type) \in DOMAIN checklist_dict
    /\ item \in Range(checklist_dict[checklist_key(Route(selected_section).section_type)])
    /\ LET key == checklist_key(Route(selected_section).section_type)
           section_name == Route(selected_section).section_name
           existing_responses == SpecificExisting(session[1], key, section_name, item)
       IN /\ existing_responses # <<>>
          /\ session' = Some([session[1] EXCEPT
                                 !.responses = RemoveEach(@, existing_responses)])
    /\ out' = [Out("clear") EXCEPT !.notices = {"Cleared responses for: " \o item}]
    /\ UNCHANGED <<checklist_dict, selected_section, selected_general_section, files,
                   now, nextOid>>

\* main, "Generate PDF Report" pressed: the report is written, then read back
GeneratePdf(ok, partial) ==
    /\ session # None
    /\ LET report == generate_pdf_report(session[1], files, ok, partial)
           readable == report.returned \in report.files
       IN /\ files' = report.files
          /\ out' = [Out("pdf") EXCEPT
                        !.returned = Some(report.returned),
                        !.write = IF ok THEN "ok" ELSE "failed",
                        !.errors = report.errors \cup
                                   (IF readable THEN {}
                                    ELSE {"Failed to read the PDF report."}),
                        !.download =
                            IF readable
                            THEN Some([label |-> "Download PDF Report",
                                       file_name |-> "Hotel_Audit_"
                                                     \o session[1].session_id \o ".pdf",
                                       data |-> report.returned])
                            ELSE None]
    /\ UNCHANGED <<checklist_dict, session, selected_section,
                   selected_general_section, now, nextOid>>

\* main, "Export to Excel" pressed
ExportExcel ==
    /\ session # None
    /\ LET df == generate_excel_data(session[1])
           empty == df.rows = <<>> \/ df.columns = <<>>
       IN out' = [Out("excel") EXCEPT
                     !.returned = Some(df),
                     !.notices = IF empty THEN {"No audit data available to export"}
                                 ELSE {},
                     !.download =
                         IF empty THEN None
                         ELSE Some([label |-> "Download Excel File",
                                    file_name |-> "hotel_audit.xlsx",
                                    data |-> df])]
    /\ UNCHANGED <<checklist_dict, session, selected_section,
                   selected_general_section, files, now, nextOid>>

\* the interactions of the audit forms
FormStep ==
    \/ \E hotel_name \in HotelNames, auditor_name \in AuditorNames,
          form \in SubEntityForms, t \in ClockReadings :
          StartAudit(hotel_name, auditor_name, form, t, t)
    \/ NewAudit
    \/ \E option \in {"General Sections", "F&B: Bar", "F&B: Cafe",
                       "Meeting Room: Bar", "Guestroom: Suite"} :
          SelectSection(option)
    \/ \E category \in PickedCategories : SelectGeneral(category)
    \/ \E item \in Items, rating \in PickedRatings, comment \in Comments,
          photo \in Uploads, t \in ClockReadings :
          \E stored \in (IF photo = None THEN {TRUE} ELSE BOOLEAN) :
             GeneralSave(item, rating, comment, photo, stored, t)
    \/ \E item \in Items : GeneralClear(item)
    \/ \E item \in Items, rating \in PickedRatings, comment \in Comments,
          photo \in Uploads, t \in ClockReadings :
          \E stored \in (IF photo = None THEN {TRUE} ELSE BOOLEAN) :
             SpecificSave(item, rating, comment, photo, stored, t)
    \/ \E item \in Items : SpecificClear(item)

\* the two export buttons
ExportStep ==
    \/ \E ok \in BOOLEAN :
          \E partial \in (IF ok THEN {FALSE} ELSE BOOLEAN) : GeneratePdf(ok, partial)
    \/ ExportExcel

\* the whole application
Next == FormStep \/ ExportStep
Spec == Init /\ [][Next]_vars

\* the application with the export buttons left alone: they change neither the
\* session nor the selection
SpecForm == Init /\ [][FormStep]_vars

\* the audit forms with the photo uploader in use: a file may be uploaded with a
\* save, and storing it may fail
PhotoUploads == {None, Some("a.jpg")}
NextPhoto ==
    \/ \E form \in SubEntityForms : StartAudit("Grand Hotel", "Ann", form, now, now)
    \/ \E option \in {"General Sections", "F&B: Bar"} : SelectSection(option)
    \/ SelectGeneral("Main Lobby")
    \/ \E photo \in PhotoUploads :
          \E stored \in (IF photo = None THEN {TRUE} ELSE BOOLEAN) :
             GeneralSave("Flooring condition", RATING_OPTIONS[2], "Worn carpet",
                         photo, stored, now)
    \/ GeneralClear("Flooring condition")
    \/ \E photo \in PhotoUploads :
          \E stored \in (IF photo = None THEN {TRUE} ELSE BOOLEAN) :
             SpecificSave("Flooring condition", RATING_OPTIONS[2], "Worn carpet",
                          photo, stored, now)
    \/ SpecificClear("Flooring condition")
SpecPhoto == Init /\ [][NextPhoto]_vars

\* ------------------------------------------- the data model, called directly
\* hotel_info as main builds it, and one without a name
ModelHotelInfos ==
    { [name |-> "Grand Hotel", city |-> "Oslo", country |-> "Norway",
       year_opened |-> "2000", floors |-> "1", total_rooms |-> "50",
       fnb_outlets |-> <<>>, meeting_rooms |-> <<>>, guestroom_types |-> <<>>],
      [city |-> "Oslo"] }
\* where a response is recorded: its section and its context
ModelPlaces ==
    { [section |-> "Main Lobby", context |-> None],
      [section |-> "Guestroom", context |-> Some("Suite")],
      [section |-> "Guestroom", context |-> Some("")] }
ModelPhotos == {None, Some(""), Some("photos/1_a.jpg")}
ModelRatings == {RATING_OPTIONS[2]}

InitModel ==
    /\ checklist_dict = load_master_checklist("loaded").returned
    /\ \E hotel_info \in ModelHotelInfos, t1 \in ClockReadings :
          /\ session = Some(AuditSession(hotel_info, "Ann", t1, t1))
          /\ now = t1
    /\ selected_section = "General Sections"
    /\ selected_general_section = GENERAL_CATEGORIES[1]
    /\ files = {}
    /\ nextOid = 1
    /\ out = Out("new")

\* session.add_response(AuditResponse(...)) with any field values
AddResponse(section, item, rating, comment, photo_file, context, t) ==
    /\ nextOid <= MaxObjects
    /\ now <= t
    /\ session' = Some(add_response(session[1],
                       AuditResponse(nextOid, ChecklistItem(section, item),
                                     rating, comment, photo_file, context, t)))
    /\ now' = t
    /\ nextOid' = nextOid + 1
    /\ out' = Out("add_response")
    /\ UNCHANGED <<checklist_dict, selected_section, selected_general_section, files>>

\* session.responses.remove(session.responses[i])
RemoveResponse(i) ==
    /\ i \in 1..Len(session[1].responses)
    /\ session' = Some([session[1] EXCEPT
                           !.responses = ListRemove(@, session[1].responses[i])])
    /\ out' = Out("remove")
    /\ UNCHANGED <<checklist_dict, selected_section, selected_general_section, files,
                   now, nextOid>>

\* session.save_to_file()
SaveToFile(ok, partial) ==
    /\ LET saved == save_to_file(session[1], files, ok, partial)
       IN /\ files' = saved.files
          /\ out' = [Out("save_to_file") EXCEPT
                        !.returned = Some(saved.returned),
                        !.errors = saved.errors,
                        !.raised = saved.raised,
                        !.write = IF ok THEN "ok" ELSE "failed"]
    /\ UNCHANGED <<checklist_dict, session, selected_section,
                   selected_general_section, now, nextOid>>

\* generate_pdf_report(session)
GeneratePdfReport(ok, partial) ==
    /\ LET report == generate_pdf_report(session[1], files, ok, partial)
       IN /\ files' = report.files
          /\ out' = [Out("generate_pdf_report") EXCEPT
                        !.returned = Some(report.returned),
                        !.document = PdfLines(session[1]),
                        !.errors = report.errors,
                        !.raised = report.raised,
                        !.write = IF ok THEN "ok" ELSE "failed"]
    /\ UNCHANGED <<checklist_dict, session, selected_section,
                   selected_general_section, now, nextOid>>

\* generate_excel_data(session)
GenerateExcelData ==
    /\ out' = [Out("generate_excel_data") EXCEPT
                  !.returned = Some(generate_excel_data(session[1]))]
    /\ UNCHANGED <<checklist_dict, session, selected_section,
                   selected_general_section, files, now, nextOid>>

\* the data model and the tabular exporter
NextModel ==
    \/ \E place \in ModelPlaces, rating \in ModelRatings, photo_file \in ModelPhotos,
          t \in ClockReadings :
          AddResponse(place.section, "Flooring condition", rating, "Worn carpet",
                      photo_file, place.context, t)
    \/ \E i \in 1..MaxObjects : RemoveResponse(i)
    \/ GenerateExcelData
SpecModel == InitModel /\ [][NextModel]_vars

\* the data model and the two writers
NextStore ==
    \/ \E t \in ClockReadings :
          AddResponse("Main Lobby", "Flooring condition", RATING_OPTIONS[2],
                      "Worn carpet", None, None, t)
    \/ \E i \in 1..MaxObjects : RemoveResponse(i)
    \/ \E ok \in BOOLEAN :
          \E partial \in (IF ok THEN {FALSE} ELSE BOOLEAN) : SaveToFile(ok, partial)
    \/ \E ok \in BOOLEAN :
          \E partial \in (IF ok THEN {FALSE} ELSE BOOLEAN) :
             GeneratePdfReport(ok, partial)
SpecStore == InitModel /\ [][NextStore]_vars

\* the data model and the document: responses of several sections and contexts
NextDoc ==
    \/ \E place \in ModelPlaces, item \in {"Flooring condition", "Lighting"},
          t \in ClockReadings :
          AddResponse(place.section, item, RATING_OPTIONS[2], "Worn carpet",
                      None, place.context, t)
    \/ \E i \in 1..MaxObjects : RemoveResponse(i)
    \/ \E ok \in BOOLEAN : GeneratePdfReport(ok, FALSE)
SpecDoc == InitModel /\ [][NextDoc]_vars

\* ------------------------------------------------- arbitrary rating strings
\* add_response validates nothing, so a rating is any string: here the canonical
\* options and every string put together from at most MaxRatingParts parts
RatingParts == {"1", "5", " - ", "x"}
RECURSIVE RatingStrings(_)
RatingStrings(n) ==
    IF n = 0 THEN {""}
    ELSE RatingStrings(n - 1)
         \cup {head \o part : head \in RatingStrings(n - 1), part \in RatingParts}
StoredRatings == Range(RATING_OPTIONS) \cup RatingStrings(MaxRatingParts)

\* a session holding no response yet
InitRating ==
    /\ checklist_dict = load_master_checklist("loaded").returned
    /\ \E hotel_info \in ModelHotelInfos :
          session = Some(AuditSession(hotel_info, "Ann", 0, 0))
    /\ now = 0
    /\ selected_section = "General Sections"
    /\ selected_general_section = GENERAL_CATEGORIES[1]
    /\ files = {}
    /\ nextOid = 1
    /\ out = Out("new")

\* one response with any rating string, then the two exporters
NextRating ==
    \/ \E rating \in StoredRatings :
          /\ session[1].responses = <<>>
          /\ AddResponse("Main Lobby", "Flooring condition", rating, "Worn carpet",
                         None, None, now)
    \/ GenerateExcelData
    \/ GeneratePdfReport(TRUE, FALSE)
SpecRating == InitRating /\ [][NextRating]_vars

\* ================================================================== claims
\* the (section, item, context) key of a response
KeyOf(r) ==
    [section |-> r.checklist_item.section, item |-> r.checklist_item.item,
     context |-> r.context]
\* the responses of the current session
Responses == IF session = None THEN <<>> ELSE session[1].responses
\* the responses of the session after the step
ResponsesAfter == IF session' = None THEN <<>> ELSE session'[1].responses
\* the responses of a list that carry a key, in the order of the list
WithKey(list, key) == SelectSeq(list, LAMBDA r : KeyOf(r) = key)
\* the responses of a list that carry another key, in the order of the list
WithoutKey(list, key) == SelectSeq(list, LAMBDA r : KeyOf(r) # key)
\* the key of the card whose button was pressed: the selection gives its section
\* and context, the notice names its item
PressedKeys(item) ==
    IF selected_section = "General Sections"
    THEN {[section |-> selected_general_section, item |-> item, context |-> None]}
    ELSE {[section |-> pair[2], item |-> item, context |-> Some(name)] :
             pair \in {p \in { <<"F&B: ", "F&B Outlets">>,
                                <<"Meeting Room: ", "Ballrooms & Meeting Rooms">>,
                                <<"Guestroom: ", "Guestroom">> } :
                          StartsWith(selected_section, p[1])},
             name \in {SubSeq(selected_section, Len(q[1]) + 1, Len(selected_section)) :
                          q \in {p \in { <<"F&B: ", "F&B Outlets">>,
                                          <<"Meeting Room: ", "Ballrooms & Meeting Rooms">>,
                                          <<"Guestroom: ", "Guestroom">> } :
                                    StartsWith(selected_section, p[1])}}}

\* C1: a Save appends exactly one response, carrying the pressed card's key, at
\* the end of session.responses; every response that was there before, those of
\* the same key included, stays where it was.
C1_SaveAppendsOne ==
    [][out'.op = "save" =>
          /\ Len(ResponsesAfter) = Len(Responses) + 1
          /\ SubSeq(ResponsesAfter, 1, Len(Responses)) = Responses
          /\ \E item \in Items :
                /\ out'.notices = {"Saved response for: " \o item}
                /\ KeyOf(ResponsesAfter[Len(ResponsesAfter)]) \in PressedKeys(item)
      ]_vars
\* a save has just added a third response to a key that had two
C1_Witness ==
    /\ out.op = "save"
    /\ Len(Responses) = 3
    /\ KeyOf(Responses[1]) = KeyOf(Responses[3])
    /\ KeyOf(Responses[2]) = KeyOf(Responses[3])

\* C2: a Clear Response removes every response of the pressed card's key and
\* nothing else: the responses of every other key are all still there, once each
\* and in their previous order.
C2_ClearByKey ==
    [][out'.op = "clear" =>
          \E item \in Items :
             /\ out'.notices = {"Cleared responses for: " \o item}
             /\ \E key \in PressedKeys(item) :
                   /\ WithKey(Responses, key) # <<>>
                   /\ WithKey(ResponsesAfter, key) = <<>>
                   /\ ResponsesAfter = WithoutKey(Responses, key)
      ]_vars
\* a clear has just left two responses of other keys behind
C2_Witness ==
    /\ out.op = "clear"
    /\ Len(Responses) = 2
    /\ nextOid = 4

\* the cards the forms can show for the current session: the handler that shows
\* the card, its arguments, and the key the card stands for
GeneralCards ==
    {[section |-> section, item |-> item] :
        section \in Range(GENERAL_CATEGORIES) \cap DOMAIN checklist_dict,
        item \in Items}
SpecificCards ==
    {[option |-> option, item |-> item] :
        option \in Range(section_options(session[1])) \ {"General Sections"},
        item \in Items}
\* the most recently appended response of a key, None without one
MostRecent(list, key) ==
    IF \E i \in 1..Len(list) : KeyOf(list[i]) = key
    THEN Some(list[CHOOSE i \in 1..Len(list) :
                     /\ KeyOf(list[i]) = key
                     /\ \A j \in (i + 1)..Len(list) : KeyOf(list[j]) # key])
    ELSE None

\* C3: the existing response a card is shown with is the most recently appended
\* response of the card's (section, item, context) key, and None exactly when the
\* key has no response.
C3_LatestForKey ==
    session # None =>
        /\ \A card \in GeneralCards :
              Latest(GeneralExisting(session[1], card.section, card.item))
                = MostRecent(Responses, [section |-> card.section, item |-> card.item,
                                         context |-> None])
        /\ \A card \in SpecificCards :
              LET route == Route(card.option)
              IN Latest(SpecificExisting(session[1], checklist_key(route.section_type),
                                         route.section_name, card.item))
                   = MostRecent(Responses,
                                [section |-> checklist_key(route.section_type),
                                 item |-> card.item,
                                 context |-> Some(route.section_name)])
\* a key has two responses and a response of another key was appended after them
C3_Witness ==
    /\ Len(Responses) = 3
    /\ KeyOf(Responses[1]) = KeyOf(Responses[2])
    /\ KeyOf(Responses[2]) # KeyOf(Responses[3])

\* the section of a response
SectionOf(r) == r.checklist_item.section
\* the responses of a list recorded under a section, in the order of the list
InSection(list, section) == SelectSeq(list, LAMBDA r : SectionOf(r) = section)

\* C4: after any adds and removes, get_responses_by_section() has exactly the
\* sections of the current responses as its keys, each once and none with an empty
\* list, and maps each section to the responses of that section in insertion
\* order, so that every current response is in exactly one partition, once.
C4_PartitionBySection ==
    LET sections == get_responses_by_section(session[1])
    IN /\ Range(DictKeys(sections)) = {SectionOf(r) : r \in Range(Responses)}
       /\ \A m, n \in 1..Len(sections) : sections[m].key = sections[n].key => m = n
       /\ \A n \in 1..Len(sections) :
             /\ sections[n].value # <<>>
             /\ sections[n].value = InSection(Responses, sections[n].key)
       /\ \A r \in Range(Responses) :
             \E n \in 1..Len(sections) :
                /\ r \in Range(sections[n].value)
                /\ \A m \in 1..Len(sections) :
                      r \in Range(sections[m].value) => m = n
\* the second of three responses was removed, and the two that are left are of
\* one section
C4_Witness ==
    /\ out.op = "remove"
    /\ Len(Responses) = 2
    /\ Responses[1].oid = 1 /\ Responses[2].oid = 3
    /\ SectionOf(Responses[1]) = SectionOf(Responses[2])

\* C7: the table generate_excel_data returns has one row per response, the i-th
\* row for the i-th response of session.responses; its Context is the response's
\* context, "General" when the response has none (None or the empty string), and
\* its Photo is "Yes" when the response has a photo reference and "No" when it has
\* none (None or the empty string).
C7_RowPerResponse ==
    out.op = "generate_excel_data" =>
        LET rows == out.returned[1].rows
        IN /\ Len(rows) = Len(Responses)
           /\ \A i \in 1..Len(Responses) :
                 LET r == Responses[i]
                 IN /\ rows[i].Section = r.checklist_item.section
                    /\ rows[i].Item = r.checklist_item.item
                    /\ rows[i].Comment = r.comment
                    /\ rows[i].Timestamp = StrftimeMinutes(r.timestamp)
                    /\ rows[i].Context =
                          (IF r.context \in {None, Some("")} THEN "General"
                           ELSE r.context[1])
                    /\ rows[i].Photo =
                          (IF r.photo_file \in {None, Some("")} THEN "No" ELSE "Yes")
\* a table of three rows for two responses of one key around one of another
\* section, with and without a context and a photo reference
C7_Witness ==
    /\ out.op = "generate_excel_data"
    /\ Len(Responses) = 3
    /\ KeyOf(Responses[1]) = KeyOf(Responses[3])
    /\ SectionOf(Responses[1]) # SectionOf(Responses[2])
    /\ \E i, j \in 1..3 :
          /\ Responses[i].context = None /\ Responses[j].context = Some("Suite")
          /\ Responses[i].photo_file = Some("photos/1_a.jpg")
          /\ Responses[j].photo_file = Some("")

\* the text of a rating before its first " - ", and the text after it
NumericPrefix(rating) == SplitFirst(rating, " - ")
DescriptionPart(rating) ==
    IF Contains(rating, " - ") THEN SplitRest(rating, " - ") ELSE rating
\* the canonical options whose numeric prefix is that of a stored rating
CanonicalFor(rating) ==
    SelectSeq(RATING_OPTIONS,
              LAMBDA opt : NumericPrefix(opt) = NumericPrefix(rating))

\* C5: whatever string a response's rating holds, its Rating column is the
\* canonical option with the same numeric prefix, and the stored string itself
\* when no canonical option has that prefix.
C5_TabularRating ==
    out.op = "generate_excel_data" =>
        \A i \in 1..Len(Responses) :
           out.returned[1].rows[i].Rating =
               (IF CanonicalFor(Responses[i].rating) # <<>>
                THEN Head(CanonicalFor(Responses[i].rating))
                ELSE Responses[i].rating)

\* the cell of the document that carries the rating of the one finding
RatingCell(document) == document[Len(PdfHeaderLines(session[1])) + 3]

\* C6: whatever string a response's rating holds, the Rating line of the document
\* shows the description part of what the Rating column of the table holds for
\* the same response.
C6_DocumentRating ==
    out.op = "generate_pdf_report" /\ Len(Responses) = 1 =>
        RatingCell(out.document) =
            "Rating: " \o DescriptionPart(ExcelRow(Responses[1]).Rating)

\* C8: the table exported for a session without responses has the seven column
\* headers and no rows.
C8_EmptyTableHasHeaders ==
    out.op = "excel" /\ Responses = <<>> =>
        /\ out.returned[1].columns = ExcelColumns
        /\ out.returned[1].rows = <<>>

\* C9: a Start Audit with the hotel name or the auditor name missing creates no
\* session and leaves the application without one, and whenever a session exists
\* it carries a hotel name and an auditor name.
C9_StartAllOrNothing ==
    /\ [](session # None =>
             /\ "name" \in DOMAIN session[1].hotel_info
             /\ session[1].hotel_info.name # ""
             /\ session[1].auditor_name # "")
    /\ [][\A hotel_name \in HotelNames, auditor_name \in AuditorNames,
             form \in SubEntityForms, t \in ClockReadings :
             (hotel_name = "" \/ auditor_name = "")
               /\ StartAudit(hotel_name, auditor_name, form, t, t)
             => session = None /\ session' = None /\ out'.errors # {}
      ]_vars
\* a Start Audit was refused after an earlier audit had recorded a response
C9_Witness ==
    /\ out.op = "start"
    /\ out.errors # {}
    /\ session = None
    /\ nextOid > 1

\* C10: save_to_file and generate_pdf_report raise nothing and return the path
\* derived from session_id whether the write succeeds or fails, report an error
\* when it fails, and leave the session, its responses included, as it was.
C10_BestEffortWrite ==
    [][out'.op \in {"save_to_file", "generate_pdf_report"} =>
          /\ session' = session
          /\ ~out'.raised
          /\ out'.returned =
                Some("audits/" \o session[1].session_id
                     \o (IF out'.op = "save_to_file" THEN ".json" ELSE ".pdf"))
          /\ (out'.write = "failed" => out'.errors # {})
          /\ (out'.write = "ok" => out'.errors = {})
      ]_vars
\* both writers have failed on a session holding responses, the document writer
\* last, and only the session file was left behind
C10_Witness ==
    /\ out.op = "generate_pdf_report"
    /\ out.write = "failed"
    /\ out.errors # {}
    /\ Len(Responses) >= 1
    /\ files = {"audits/" \o session[1].session_id \o ".json"}

\* the sections of a list of responses, each once, in the order in which the
\* first response of each section occurs in the list
SectionsInOrder(list) ==
    LET firsts == SelectSeq([i \in 1..Len(list) |-> i],
                            LAMBDA i : \A j \in 1..(i - 1) :
                                          SectionOf(list[j]) # SectionOf(list[i]))
    IN [n \in 1..Len(firsts) |-> SectionOf(list[firsts[n]])]
\* the item line of finding number k for response r
ItemLine(k, r) ==
    ToString(k) \o ". Item: " \o r.checklist_item.item
      \o (IF r.context \in {None, Some("")} THEN ""
          ELSE " (" \o r.context[1] \o ")")
\* the three cells of finding number k of the responses of one section
FindingCells(mine, k) ==
    << ItemLine(k, mine[k]),
       "Rating: " \o DescriptionPart(mine[k].rating),
       "Comment: " \o mine[k].comment >>
RECURSIVE CellsFrom(_, _)
CellsFrom(mine, k) ==
    IF k > Len(mine) THEN <<>> ELSE FindingCells(mine, k) \o CellsFrom(mine, k + 1)
\* the cells of the subsections from section number n on
RECURSIVE FindingsOf(_, _, _)
FindingsOf(list, sections, n) ==
    IF n > Len(sections) THEN <<>>
    ELSE << "Section: " \o sections[n] >>
           \o CellsFrom(InSection(list, sections[n]), 1)
           \o FindingsOf(list, sections, n + 1)

\* C11: after any adds and removes, the findings of the document are one
\* subsection per section that has responses, in the order in which each section's
\* first remaining response occurs in session.responses; within a subsection the
\* responses are in insertion order, numbered from 1 in every subsection, and an
\* item line carries the context in parentheses exactly when the response has one
\* (a context of None or the empty string is none).
C11_FindingsOrder ==
    out.op = "generate_pdf_report" =>
        SubSeq(out.document, Len(PdfHeaderLines(session[1])) + 1, Len(out.document))
          = FindingsOf(Responses, SectionsInOrder(Responses), 1)
\* a document for three responses: two of one section, one with a context, around
\* one of another section
C11_Witness ==
    /\ out.op = "generate_pdf_report"
    /\ Len(Responses) = 3
    /\ SectionOf(Responses[1]) = SectionOf(Responses[3])
    /\ SectionOf(Responses[1]) # SectionOf(Responses[2])
    /\ \E i, j \in 1..3 : Responses[i].context = None
                          /\ Responses[j].context = Some("Suite")

\* C12: a Generate PDF Report whose write fails offers no download, whatever was
\* saved, cleared or exported before.
C12_FailedWriteNoDownload ==
    out.op = "pdf" /\ out.write = "failed" => out.download = None

\* the sub-entity names the hotel information gives for a specialized section
SubEntityNames(hotel_info, section) ==
    CASE section = "F&B Outlets" -> Range(hotel_info.fnb_outlets)
      [] section = "Ballrooms & Meeting Rooms" -> Range(hotel_info.meeting_rooms)
      [] section = "Guestroom" ->
            {type.name : type \in Range(hotel_info.guestroom_types)}
      [] OTHER -> {}

\* C13: every response recorded through the forms has a (section, item) pair of
\* the loaded catalog; it has no context exactly when its section is a general
\* category, and a non-empty sub-entity name of the hotel as its context exactly
\* when its section is a specialized section; with a catalog without items no
\* response is ever recorded.
C13_KeysWellFormed ==
    /\ \A r \in Range(Responses) :
          /\ SectionOf(r) \in DOMAIN checklist_dict
          /\ r.checklist_item.item \in Range(checklist_dict[SectionOf(r)])
          /\ SectionOf(r) \in Range(GENERAL_CATEGORIES) \cup Range(SPECIALIZED_SECTIONS)
          /\ (r.context = None <=> SectionOf(r) \in Range(GENERAL_CATEGORIES))
          /\ (SectionOf(r) \in Range(SPECIALIZED_SECTIONS) <=>
                 /\ r.context # None
                 /\ r.context # Some("")
                 /\ r.context[1] \in SubEntityNames(session[1].hotel_info, SectionOf(r)))
    /\ (\A section \in DOMAIN checklist_dict : checklist_dict[section] = <<>>)
          => Responses = <<>>
\* a session holds a response of a general category and responses of two
\* sub-entities of specialized sections
C13_Witness ==
    /\ out.op = "save"
    /\ Len(Responses) = 3
    /\ \E i, j, k \in 1..3 :
          /\ Responses[i].context = None
          /\ KeyOf(Responses[j]).section = "F&B Outlets"
          /\ KeyOf(Responses[k]).section = "Ballrooms & Meeting Rooms"

\* the key of the card that is on the page, for the item the notice names
PageKey ==
    CHOOSE key \in UNION {PressedKeys(item) : item \in Items} :
       out'.notices = {"Saved response for: " \o key.item}

\* C14: a Save for a key whose latest response has a photo reference gives the
\* key a latest response that has a photo reference too, whether no file was
\* uploaded with the save, one was uploaded and stored, or one was uploaded and
\* storing it failed.
C14_PhotoKept ==
    [][out'.op = "save" =>
          LET before == MostRecent(Responses, PageKey)
              after == MostRecent(ResponsesAfter, PageKey)
          IN before # None /\ Truthy(before[1].photo_file)
               => after # None /\ Truthy(after[1].photo_file)
      ]_vars

====
